---- MODULE Spec2Model ----
(***************************************************************************)
(* State-machine model of nutshell.py (class ProductServer): the request   *)
(* engine that serves a product file from the cache or generates it with   *)
(* an external generate.sh, after resolving the inputs that input.sh       *)
(* lists by recursive MAKE requests.                                       *)
(*                                                                         *)
(* Every step of handle_request that reads or writes the file system is    *)
(* one action, so that requests of several callers interleave between      *)
(* their file-system operations.  A caller's call stack is a sequence of   *)
(* ProductRequest frames; the last frame is the running one.               *)
(***************************************************************************)
EXTENDS Integers, Sequences, FiniteSets, TLC

VARIABLES
    fs,       \* the file system: path -> file content
    stack,    \* caller -> its stack of ProductRequest frames (recursion)
    last,     \* caller -> outcome of its last finished top-level make_request
    nreq,     \* caller -> number of top-level requests issued so far
    fixture   \* what the environment does: the callers, the number of
              \* requests of each, the products they ask for, the products
              \* that have an input.sh, what input.sh prints

vars == <<fs, stack, last, nreq, fixture>>

----------------------------------------------------------------------------
(* Bounds and the fixture.                                                 *)

\* top-level make_request calls per caller
MaxRequests == 3

Callers == {1, 2}

\* product types: "a" has generate.sh and input.sh, "b" has generate.sh
\* only, "c" has neither (a product copied into the cache).
Products == {"a", "b", "c"}
GeneratorScripts == {"a", "b"}
InputScripts == {"a"}

ActionSets == SUBSET {"MAKE", "DELETE", "INPUTS"}
DirectiveSets == {{}, {"LINK", "LATEST", "LOG"}}

----------------------------------------------------------------------------
(* http.HTTPStatus                                                         *)

OK == 200
ACCEPTED == 202
NO_CONTENT == 204
CONFLICT == 409
NOT_IMPLEMENTED == 501

\* the values of the enumeration http.HTTPStatus
HTTPStatus ==
    {100, 101, 102} \cup (200..208) \cup {226} \cup (300..305) \cup {307, 308}
    \cup (400..418) \cup (421..424) \cup {426, 428, 429, 431, 451}
    \cup (500..508) \cup {510, 511}

----------------------------------------------------------------------------
(* Text captured from a child process: a sequence of lines, a line a       *)
(* sequence of tokens separated by one blank, a token a sequence of        *)
(* character codes.                                                        *)

Digit(c) == c \in 48..57

\* tokens "409", "404", "200", "999", "bad", "ok"
T409 == <<52, 48, 57>>
T404 == <<52, 48, 52>>
T200 == <<50, 48, 48>>
T999 == <<57, 57, 57>>
Tbad == <<98, 97, 100>>
Tok == <<111, 107>>

\* outputs of a generator: nothing; "409 bad"; "409" then "bad";
\* "bad" then "404" and a trailing empty line; "999"; "200 bad"
NoOutput == <<>>
Outputs ==
    { NoOutput,
      << <<T409, Tbad>> >>,
      << <<T409>>, <<Tbad>> >>,
      << <<Tbad>>, <<T404>>, <<>> >>,
      << <<T999>> >>,
      << <<T200, Tbad>> >> }

\* outputs of a failing input.sh: nothing; "bad"; "409 bad"
ListErrors == { NoOutput, << <<Tbad>> >>, << <<T409, Tbad>> >> }

RECURSIVE StripRight(_)
StripRight(lines) ==
    IF lines # <<>> /\ lines[Len(lines)] = <<>>
    THEN StripRight(SubSeq(lines, 1, Len(lines) - 1))
    ELSE lines

RECURSIVE StripLeft(_)
StripLeft(lines) ==
    IF lines # <<>> /\ lines[1] = <<>> THEN StripLeft(Tail(lines)) ELSE lines

\* stdout.strip().split('\n'): a text of blank lines only splits into ['']
StripSplit(lines) ==
    LET s == StripLeft(StripRight(lines))
    IN  IF s = <<>> THEN << <<>> >> ELSE s

\* lines.pop()
LastLine(lines) == StripSplit(lines)[Len(StripSplit(lines))]

\* error_info.split(' ')[0]
FirstToken(line) == IF line = <<>> THEN <<>> ELSE line[1]

\* int(token) raises ValueError unless the token is a run of digits
IsInt(tok) == tok # <<>> /\ \A i \in 1..Len(tok) : Digit(tok[i])

RECURSIVE IntOf(_)
IntOf(tok) ==
    IF tok = <<>> THEN 0
    ELSE 10 * IntOf(SubSeq(tok, 1, Len(tok) - 1)) + (tok[Len(tok)] - 48)

----------------------------------------------------------------------------
(* Paths and files.                                                        *)

Kinds ==
    {"final", "tmp", "static", "latest", "stdout.log", "stderr.log", "log",
     "dir", "tmpdir"}
Paths == [d : Products, kind : Kinds]

\* pr.path = '' after "Generator script not found"
NoPath == [d |-> "", kind |-> ""]

Path(d) == [d |-> d, kind |-> "final"]
PathTmp(d) == [d |-> d, kind |-> "tmp"]
PathStatic(d) == [d |-> d, kind |-> "static"]
PathLatest(d) == [d |-> d, kind |-> "latest"]
Sibling(path, suffix) == [d |-> path.d, kind |-> suffix]

\* Path.parent (of path, path_tmp and the tmp directory) and Path.name
Parent(path) ==
    [d |-> path.d, kind |-> IF path.kind = "tmp" THEN "tmpdir" ELSE "dir"]
Name(path) == [d |-> path.d, kind |-> "name"]

\* a file: kind "none" (no such file), "empty" (size 0), "part" (a
\* generator's output being written), "full" (a complete generator output),
\* "text" (the captured output of a generator run), "link" (a symbolic
\* link), "dir"; by: the generator run whose data or output the file holds,
\* for as long as the request that started the run is in progress (0: the
\* file of a request that has returned, or one that was always there)
NoFile == [kind |-> "none", by |-> 0]
EmptyFile == [kind |-> "empty", by |-> 0]
DataFile(kind, run) == [kind |-> kind, by |-> run]
TextFile(run) == [kind |-> "text", by |-> run]
LinkFile == [kind |-> "link", by |-> 0]
DirFile == [kind |-> "dir", by |-> 0]

\* Path.exists()
Exists(f, path) == f[path].kind # "none"

\* Path.stat().st_size
Size(f, path) == IF f[path].kind \in {"none", "empty"} THEN 0 ELSE 1

----------------------------------------------------------------------------
(* ProductRequest                                                          *)

None == [d |-> "None", kind |-> ""]

ProductRequest(d, acts, dirs) ==
    [ d          |-> d,
      actions    |-> acts,
      directives |-> dirs,
      pc         |-> "start",
      path       |-> Path(d),
      path_tmp   |-> PathTmp(d),
      product    |-> None,
      status     |-> NO_CONTENT,
      returncode |-> -1,
      stdout     |-> NoOutput,
      inputs     |-> <<>>,
      listed     |-> 0,
      i          |-> 1,
      resolved   |-> <<>>,
      results    |-> <<>>,
      params     |-> <<>>,
      ran        |-> {},
      run        |-> 0,
      mode       |-> "",
      fd         |-> NoPath,
      fs0        |-> fs ]

Top(p) == stack[p][Len(stack[p])]

SetTop(p, f) == [stack EXCEPT ![p] = [@ EXCEPT ![Len(@)] = f]]

Running(p, pc) == stack[p] # <<>> /\ Top(p).pc = pc

\* what the caller of make_request(f) got: the request's status and product
\* file, or the exception raised and, from its traceback, the actions of the
\* request r that raised it
Outcome(f, raised, r) ==
    [ d       |-> f.d,
      status  |-> IF raised = "" THEN f.status ELSE 0,
      product |-> IF raised = "" THEN f.product ELSE None,
      raised  |-> raised,
      actions |-> IF raised = "" THEN {} ELSE r.actions ]

NoOutcome ==
    [d |-> "", status |-> 0, product |-> None, raised |-> "", actions |-> {}]

\* the generator runs of the requests in progress (of caller p), and the id
\* of the next run
RunsOf(p) == { stack[p][k].run : k \in 1..Len(stack[p]) } \ {0}
LiveRuns == UNION { RunsOf(q) : q \in Callers }
FreshRun == CHOOSE n \in 1..(Cardinality(LiveRuns) + 1) : n \notin LiveRuns

\* the files once the requests that started these runs are over
Settle(f, runs) ==
    [ path \in DOMAIN f |->
        IF f[path].by \in runs THEN [f[path] EXCEPT !.by = 0] ELSE f[path] ]

\* an exception leaves handle_request and every make_request above it: the
\* top-level caller gets the exception and no ProductRequest
Raise(p, what) ==
    /\ last' = [last EXCEPT ![p] = Outcome(stack[p][1], what, Top(p))]
    /\ stack' = [stack EXCEPT ![p] = <<>>]
    /\ fs' = Settle(fs, RunsOf(p))

----------------------------------------------------------------------------
(* Open files of running generators.  A generator writes OUTDIR/OUTFILE    *)
(* through an open file: frame.fd is the path at which that file now is    *)
(* (NoPath: not open, or no longer in the file system).                    *)

\* the frames of every caller, renamed files followed: f.fd = from -> to
MoveFds(stk, from, to, gone) ==
    [ q \in Callers |->
        IF stk[q] = <<>> THEN <<>>
        ELSE [ k \in 1..Len(stk[q]) |->
                 LET f == stk[q][k]
                 IN  IF f.fd = from /\ from # NoPath THEN [f EXCEPT !.fd = to]
                     ELSE IF f.fd = gone /\ gone # NoPath
                     THEN [f EXCEPT !.fd = NoPath]
                     ELSE f ] ]

\* another generator still has the file at path open for writing
OtherWriter(p, path) ==
    \E q \in Callers : \E k \in 1..Len(stack[q]) :
        /\ <<q, k>> # <<p, Len(stack[p])>>
        /\ stack[q][k].pc = "running"
        /\ stack[q][k].fd = path

----------------------------------------------------------------------------
(* make_request, and handle_request up to the placeholder.                 *)

\* a top-level make_request(product_info, actions, directives)
make_request(p) ==
    /\ p \in fixture.callers
    /\ stack[p] = <<>>
    /\ nreq[p] < fixture.requests
    /\ \E d \in fixture.products, acts \in fixture.actions,
          dirs \in fixture.directives :
           stack' = [stack EXCEPT ![p] = <<ProductRequest(d, acts, dirs)>>]
    /\ nreq' = [nreq EXCEPT ![p] = @ + 1]
    /\ UNCHANGED <<fs, last, fixture>>

\* (a variant that generates again over an existing file)
AfterExistsRegenerate(f, exists) ==
    IF exists /\ "DELETE" \in f.actions THEN "unlink" ELSE "generator"

\* where "if (pr.path.exists())" leads
AfterExists(f, exists) ==
    IF exists /\ "DELETE" \in f.actions THEN "unlink"
    ELSE IF exists /\ "MAKE" \in f.actions THEN "stat"
    ELSE "generator"

PathExists(p) ==
    /\ Running(p, "start")
    /\ stack' = SetTop(p, [Top(p) EXCEPT
                              !.pc = AfterExists(Top(p), Exists(fs, Top(p).path))])
    /\ UNCHANGED <<fs, last, nreq, fixture>>

\* the DELETE branch: pr.path.unlink(), status ACCEPTED, and no return
AfterDelete(f) == [f EXCEPT !.status = ACCEPTED, !.pc = "generator"]

Delete(p) ==
    /\ Running(p, "unlink")
    /\ \/ /\ Exists(fs, Top(p).path)
          /\ fs' = [fs EXCEPT ![Top(p).path] = NoFile]
          /\ stack' = MoveFds(SetTop(p, AfterDelete(Top(p))),
                              NoPath, NoPath, Top(p).path)
          /\ UNCHANGED last
       \/ /\ ~Exists(fs, Top(p).path)
          /\ Raise(p, "FileNotFoundError")
    /\ UNCHANGED <<nreq, fixture>>

\* (a variant that serves the placeholder as the product)
CachedAnySize(f, size) ==
    [f EXCEPT !.product = f.path, !.status = OK, !.pc = "done"]

\* the MAKE branch on an existing file: a non-empty file is the product, an
\* empty one means BUSY; both return
Cached(f, size) ==
    IF size > 0
    THEN [f EXCEPT !.product = f.path, !.status = OK, !.pc = "done"]
    ELSE [f EXCEPT !.product = NoPath, !.status = ACCEPTED, !.pc = "done"]

StatFinal(p) ==
    /\ Running(p, "stat")
    /\ \/ /\ Exists(fs, Top(p).path)
          /\ stack' = SetTop(p, Cached(Top(p), Size(fs, Top(p).path)))
          /\ UNCHANGED last
          /\ UNCHANGED fs
       \/ /\ ~Exists(fs, Top(p).path)
          /\ Raise(p, "FileNotFoundError")
    /\ UNCHANGED <<nreq, fixture>>

\* (a variant that finds the generator missing only after the placeholder)
CheckGeneratorLate(f, exists) ==
    IF exists \/ "MAKE" \in f.actions
    THEN [f EXCEPT !.pc = IF "MAKE" \in f.actions THEN "touch"
                          ELSE IF "INPUTS" \in f.actions THEN "inputs"
                          ELSE "done"]
    ELSE [f EXCEPT !.path = NoPath, !.status = NOT_IMPLEMENTED, !.pc = "done"]

\* "if (pr.generator_path.exists())": without a generator the request ends
\* NOT_IMPLEMENTED with its path cleared
CheckGenerator(f, exists) ==
    IF exists
    THEN [f EXCEPT !.pc = IF "MAKE" \in f.actions THEN "touch"
                          ELSE IF "INPUTS" \in f.actions THEN "inputs"
                          ELSE "done"]
    ELSE [f EXCEPT !.path = NoPath, !.status = NOT_IMPLEMENTED, !.pc = "done"]

GeneratorExists(p) ==
    /\ Running(p, "generator")
    /\ stack' = SetTop(p, CheckGenerator(Top(p), Top(p).d \in GeneratorScripts))
    /\ UNCHANGED <<fs, last, nreq, fixture>>

\* os.makedirs(outdir, 0o775, True): the directory and its parents
ensure_output_dir(f, outdir) ==
    IF outdir.kind = "tmpdir"
    THEN [f EXCEPT ![outdir] = DirFile, ![Parent(outdir)] = DirFile]
    ELSE [f EXCEPT ![outdir] = DirFile]

\* (a variant that leaves no placeholder)
TouchNothing(f, path) == f

\* Path.touch(): creates an empty file, leaves an existing one as it is
Touch(f, path) == IF Exists(f, path) THEN f ELSE [f EXCEPT ![path] = EmptyFile]

\* params: OUTDIR and OUTFILE
OutParams(f) ==
    ("OUTDIR" :> Parent(f.path_tmp)) @@ ("OUTFILE" :> Name(f.path))

\* "if ('MAKE' in pr.actions)": the cache directories, params, the placeholder
Placeholder(p) ==
    /\ Running(p, "touch")
    /\ fs' = Touch(ensure_output_dir(ensure_output_dir(fs, Parent(Top(p).path_tmp)),
                                     Parent(Top(p).path)),
                   Top(p).path)
    /\ stack' = SetTop(p, [Top(p) EXCEPT !.params = OutParams(Top(p)),
                                         !.pc = "inputs"])
    /\ UNCHANGED <<last, nreq, fixture>>

----------------------------------------------------------------------------
(* get_input_list and the recursive requests for the inputs.               *)

\* what a succeeding input.sh prints: nothing, an empty line, or lines
\* name=product (a line <<name, product>>) with distinct names, one of which
\* may be the name of a parameter the engine sets itself
Listings ==
    { NoOutput, << <<>> >> }
    \cup { << <<"x", d>> >> : d \in Products }
    \cup { << <<"x", d>>, <<"y", e>> >> : d \in Products, e \in Products }
    \cup { << <<"OUTFILE", "c">> >> }

\* nutils.read_conf_text: the lines name=value, empty lines ignored
read_conf_text(lines) == SelectSeq(lines, LAMBDA l : l # <<>>)

\* get_input_list returned: returncode 0 gives pr.inputs, another one status
\* CONFLICT and the removal of pr.path (listed: input_info.returncode)
AfterInputs(f, returncode, inputs) ==
    IF returncode = 0
    THEN [f EXCEPT !.inputs = inputs,
                   !.pc = IF "MAKE" \in f.actions THEN "loop" ELSE "done"]
    ELSE [f EXCEPT !.listed = returncode, !.status = CONFLICT, !.pc = "remove"]

\* how input.sh ends: exit 0 with a listing or with nothing, or a failure
ListExits(listings) ==
    { <<0, out>> : out \in listings \cup {NoOutput} }
    \cup { <<1, out>> : out \in ListErrors }

\* the exception get_input_list raises, "" for none.  An _InputInfo has
\* neither error_info nor status: run_process sets error_info only for a
\* failure with output, and reads task.status when the last line of that
\* output names no status code; without output, stdout stays the bytes b'',
\* whose split('\n') raises TypeError
InputError(returncode, stdout) ==
    IF returncode = 0
    THEN IF stdout = NoOutput THEN "TypeError" ELSE ""
    ELSE IF stdout = NoOutput THEN "AttributeError"
    ELSE LET token == FirstToken(LastLine(stdout))
         IN  IF IsInt(token) /\ IntOf(token) \in HTTPStatus THEN ""
             ELSE "AttributeError"

get_input_list(p) ==
    /\ Running(p, "inputs")
    /\ \/ \* "No input script": an empty InputInfo, returncode 0
          /\ Top(p).d \notin fixture.input_scripts
          /\ stack' = SetTop(p, AfterInputs(Top(p), 0, <<>>))
          /\ UNCHANGED <<fs, last>>
       \/ \* input.sh runs
          /\ Top(p).d \in fixture.input_scripts
          /\ \E exit \in ListExits(fixture.listings) :
               IF InputError(exit[1], exit[2]) # ""
               THEN Raise(p, InputError(exit[1], exit[2]))
               ELSE /\ stack' = SetTop(p, AfterInputs(
                                   [Top(p) EXCEPT !.ran = @ \cup {"input.sh"}],
                                   exit[1],
                                   IF exit[1] = 0 THEN read_conf_text(exit[2])
                                   ELSE <<>>))
                    /\ UNCHANGED <<fs, last>>
    /\ UNCHANGED <<nreq, fixture>>

\* "pr.path.unlink()" after a failed input listing
RemovePlaceholder(p) ==
    /\ Running(p, "remove")
    /\ \/ /\ Exists(fs, Top(p).path)
          /\ fs' = [fs EXCEPT ![Top(p).path] = NoFile]
          /\ stack' = MoveFds(SetTop(p, [Top(p) EXCEPT !.pc = "done"]),
                              NoPath, NoPath, Top(p).path)
          /\ UNCHANGED last
       \/ /\ ~Exists(fs, Top(p).path)
          /\ Raise(p, "FileNotFoundError")
    /\ UNCHANGED <<nreq, fixture>>

\* (a variant that hands the directives of the request down to its inputs)
MakeInputInherits(p) ==
    /\ Running(p, "loop")
    /\ Top(p).i <= Len(Top(p).inputs)
    /\ stack' = [stack EXCEPT ![p] =
                   Append([@ EXCEPT ![Len(@)] = [Top(p) EXCEPT !.pc = "wait"]],
                          ProductRequest(Top(p).inputs[Top(p).i][2], {"MAKE"},
                                         Top(p).directives))]
    /\ UNCHANGED <<fs, last, nreq, fixture>>

\* "r = self.make_request(input_prod_info, ['MAKE'], [], ...)" for input i
MakeInput(p) ==
    /\ Running(p, "loop")
    /\ Top(p).i <= Len(Top(p).inputs)
    /\ stack' = [stack EXCEPT ![p] =
                   Append([@ EXCEPT ![Len(@)] = [Top(p) EXCEPT !.pc = "wait"]],
                          ProductRequest(Top(p).inputs[Top(p).i][2], {"MAKE"}, {}))]
    /\ UNCHANGED <<fs, last, nreq, fixture>>

\* "if (r.path): inputs[i] = str(r.path)", else the input is skipped
\* (results: the status each input's request returned)
InputResult(f, r) ==
    [f EXCEPT !.resolved = IF r.path # NoPath
                           THEN Append(@, <<f.inputs[f.i][1], r.path>>)
                           ELSE @,
              !.results = Append(@, <<f.inputs[f.i][1], r.status>>),
              !.i = @ + 1,
              !.pc = "loop"]

\* the request of an input returns to the request that asked for it
ReturnInput(p) ==
    /\ Running(p, "done")
    /\ Len(stack[p]) > 1
    /\ stack' = [stack EXCEPT ![p] =
                   [k \in 1..(Len(@) - 1) |->
                      IF k = Len(@) - 1 THEN InputResult(@[k], Top(p)) ELSE @[k]]]
    /\ fs' = Settle(fs, {Top(p).run})
    /\ UNCHANGED <<last, nreq, fixture>>

\* ','.join(pr.inputs.keys())
InputKeys(inputs) == [k \in 1..Len(inputs) |-> inputs[k][1]]

RECURSIVE InputEnv(_)
InputEnv(inputs) ==
    IF inputs = <<>> THEN <<>>
    ELSE (inputs[Len(inputs)][1] :> inputs[Len(inputs)][2])
         @@ InputEnv(SubSeq(inputs, 1, Len(inputs) - 1))

\* (a variant in which a request ends after its inputs, without generating)
InputParamsOnly(f) ==
    [f EXCEPT !.inputs = f.resolved,
              !.params = InputEnv(f.resolved)
                         @@ ("INPUTKEYS" :> InputKeys(f.resolved)) @@ f.params,
              !.pc = "done"]

\* after the loop: pr.inputs = inputs, INPUTKEYS, params.update(pr.inputs)
InputParams(f) ==
    [f EXCEPT !.inputs = f.resolved,
              !.params = InputEnv(f.resolved)
                         @@ ("INPUTKEYS" :> InputKeys(f.resolved)) @@ f.params,
              !.pc = "generate"]

InputsDone(p) ==
    /\ Running(p, "loop")
    /\ Top(p).i > Len(Top(p).inputs)
    /\ stack' = SetTop(p, InputParams(Top(p)))
    /\ UNCHANGED <<fs, last, nreq, fixture>>

----------------------------------------------------------------------------
(* run_generator, run_process and the publication.                         *)

\* what a generator does with OUTDIR/OUTFILE: nothing, an empty file, data
WriteModes == {"none", "empty", "data"}

\* how a generator ends: its exit code and what it printed; one that exits
\* 0 prints nothing or "ok"
Exits(outputs) ==
    { <<0, NoOutput>>, <<0, << <<Tok>> >> >> } \cup { <<1, out>> : out \in outputs }

\* the file OUTDIR/OUTFILE of the environment (NoPath: not a cache file)
OutTarget(params) ==
    IF /\ params["OUTDIR"].kind = "tmpdir"
       /\ params["OUTFILE"].kind = "name"
       /\ params["OUTDIR"].d = params["OUTFILE"].d
    THEN PathTmp(params["OUTDIR"].d)
    ELSE NoPath

\* subprocess.Popen(generator_path, env=params): the generator opens its
\* output file, truncating it
OpenOutput(f, target, mode, run) ==
    IF mode = "none" \/ target = NoPath THEN f
    ELSE [f EXCEPT ![target] =
             IF mode = "empty" THEN EmptyFile ELSE DataFile("part", run)]

Popen(p) ==
    /\ Running(p, "generate")
    /\ \E mode \in WriteModes :
         LET target == OutTarget(Top(p).params)
         IN  /\ fs' = OpenOutput(fs, target, mode, FreshRun)
             /\ stack' = SetTop(p, [Top(p) EXCEPT
                             !.ran = @ \cup {"generate.sh"},
                             !.run = FreshRun,
                             !.mode = mode,
                             !.fd = IF mode = "data" THEN target ELSE NoPath,
                             !.pc = "running"])
    /\ UNCHANGED <<last, nreq, fixture>>

\* the generator's last write: its output is complete unless the file was
\* truncated or is still written by another generator
CloseOutput(f, fd, run, shared) ==
    IF fd = NoPath THEN f
    ELSE [f EXCEPT ![fd] =
             IF f[fd] = DataFile("part", run) /\ ~shared
             THEN DataFile("full", run)
             ELSE DataFile("part", IF f[fd].by = 0 THEN run ELSE f[fd].by)]

\* the status a failed process reports on the last line of its output
StatusOf(stdout) ==
    LET token == FirstToken(LastLine(stdout))
    IN  IF IsInt(token) /\ IntOf(token) \in HTTPStatus
        THEN IntOf(token)
        ELSE CONFLICT

\* run_process(p, task, log) after p.communicate()
run_process(task, returncode, stdout) ==
    [task EXCEPT !.returncode = returncode,
                 !.status = IF stdout # NoOutput /\ returncode # 0
                            THEN StatusOf(stdout)
                            ELSE @,
                 !.stdout = stdout]

\* stderr=subprocess.STDOUT: communicate() returns no stderr
GeneratorStderr == NoOutput

\* run_generator after run_process: the logs of a failed generator
WriteLogs(f, pr, returncode, stdout, stderr) ==
    IF returncode = 0 THEN f
    ELSE [f EXCEPT ![Sibling(pr.path, "stdout.log")] =
                       IF stdout # NoOutput THEN TextFile(pr.run) ELSE @,
                   ![Sibling(pr.path, "stderr.log")] =
                       IF stderr # NoOutput THEN TextFile(pr.run) ELSE @]

\* (a variant that clears the placeholder after a failed generator)
AfterGeneratorCleans(f) ==
    [f EXCEPT !.fd = NoPath,
              !.pc = IF f.returncode # 0 THEN "remove" ELSE "stattmp"]

\* "if (pr.returncode != 0): return pr"
AfterGenerator(f) ==
    [f EXCEPT !.fd = NoPath,
              !.pc = IF f.returncode # 0 THEN "done" ELSE "stattmp"]

run_generator(p) ==
    /\ Running(p, "running")
    /\ \E exit \in Exits(fixture.outputs) :
         /\ fs' = WriteLogs(CloseOutput(fs, Top(p).fd, Top(p).run,
                                        OtherWriter(p, Top(p).fd)),
                            Top(p), exit[1], exit[2], GeneratorStderr)
         /\ stack' = SetTop(p, AfterGenerator(run_process(Top(p), exit[1], exit[2])))
    /\ UNCHANGED <<last, nreq, fixture>>

\* (a variant that clears the placeholder when the temp file is empty)
AfterStatTmpCleans(f, size) ==
    [f EXCEPT !.pc = IF size = 0 THEN "remove" ELSE "publish"]

\* "if (pr.path_tmp.stat().st_size == 0): return pr"
AfterStatTmp(f, size) == [f EXCEPT !.pc = IF size = 0 THEN "done" ELSE "publish"]

StatTmp(p) ==
    /\ Running(p, "stattmp")
    /\ \/ /\ Exists(fs, Top(p).path_tmp)
          /\ stack' = SetTop(p, AfterStatTmp(Top(p), Size(fs, Top(p).path_tmp)))
          /\ UNCHANGED <<fs, last>>
       \/ /\ ~Exists(fs, Top(p).path_tmp)
          /\ Raise(p, "FileNotFoundError")
    /\ UNCHANGED <<nreq, fixture>>

\* (a variant that copies the temp file and leaves it behind)
ReplaceCopy(f, source, target) == [f EXCEPT ![target] = f[source]]

\* Path.replace(target): one rename
Replace(f, source, target) == [f EXCEPT ![target] = f[source], ![source] = NoFile]

\* "pr.path_tmp.replace(pr.path)" and status OK
Publish(p) ==
    /\ Running(p, "publish")
    /\ \/ /\ Exists(fs, Top(p).path_tmp)
          /\ fs' = Replace(fs, Top(p).path_tmp, Top(p).path)
          /\ stack' = MoveFds(SetTop(p, [Top(p) EXCEPT !.status = OK,
                                                       !.pc = "directives"]),
                              Top(p).path_tmp, Top(p).path, Top(p).path)
          /\ UNCHANGED last
       \/ /\ ~Exists(fs, Top(p).path_tmp)
          /\ Raise(p, "FileNotFoundError")
    /\ UNCHANGED <<nreq, fixture>>

\* nutils.symlink(link, target): a symbolic link at link, replacing the one
\* that was there
symlink(f, link, target) == [f EXCEPT ![link] = LinkFile]

\* (a variant that takes the artifact back when a directive fails)
DirectivesOrNothing(f, pr, fails) ==
    IF fails # {} THEN [f EXCEPT ![pr.path] = NoFile]
    ELSE [f EXCEPT ![PathStatic(pr.d)] =
                       IF "LINK" \in pr.directives THEN LinkFile ELSE @,
                   ![PathLatest(pr.d)] =
                       IF "LATEST" \in pr.directives THEN LinkFile ELSE @]

\* LINK and LATEST share one try block, LOG has its own; a failure is only
\* logged.  fails: the directives whose file operation fails
Directives(f, pr, fails) ==
    LET f1 == IF "LINK" \in pr.directives \ fails
              THEN symlink(f, PathStatic(pr.d), pr.path)
              ELSE f
        f2 == IF "LATEST" \in pr.directives \ fails /\ "LINK" \notin fails
              THEN symlink(f1, PathLatest(pr.d), pr.path)
              ELSE f1
    IN  IF "LOG" \in pr.directives \ fails /\ pr.stdout # NoOutput
        THEN [f2 EXCEPT ![Sibling(pr.path, "log")] = TextFile(pr.run)]
        ELSE f2

ApplyDirectives(p) ==
    /\ Running(p, "directives")
    /\ \E fails \in SUBSET Top(p).directives :
         fs' = Directives(fs, Top(p), fails)
    /\ stack' = SetTop(p, [Top(p) EXCEPT !.pc = "done"])
    /\ UNCHANGED <<last, nreq, fixture>>

\* "return pr" to the caller of the top-level make_request
Return(p) ==
    /\ Running(p, "done")
    /\ Len(stack[p]) = 1
    /\ last' = [last EXCEPT ![p] = Outcome(Top(p), "", Top(p))]
    /\ stack' = [stack EXCEPT ![p] = <<>>]
    /\ fs' = Settle(fs, {Top(p).run})
    /\ UNCHANGED <<nreq, fixture>>

----------------------------------------------------------------------------
(* The specifications.                                                     *)

\* the cache before the first request: of each product either nothing or a
\* complete file in its directory
Cache(pre) ==
    [ path \in Paths |->
        IF path.d \in pre /\ path.kind = "final" THEN DataFile("full", 0)
        ELSE IF path.d \in pre /\ path.kind = "dir" THEN DirFile
        ELSE NoFile ]

InitWith(fix) ==
    /\ fs \in { Cache(pre) : pre \in SUBSET fix.products }
    /\ stack = [p \in Callers |-> <<>>]
    /\ last = [p \in Callers |-> NoOutcome]
    /\ nreq = [p \in Callers |-> 0]
    /\ fixture = fix

\* one caller and one request for any product, whose input.sh lists any
\* inputs
Init ==
    InitWith([callers |-> {1}, requests |-> 1, products |-> Products,
              input_scripts |-> InputScripts,
              actions |-> ActionSets, directives |-> DirectiveSets,
              listings |-> Listings,
              outputs |-> Outputs])

\* one caller and a sequence of requests for "a" or "c"; input.sh of "a"
\* lists nothing or "c"
InitRepeat ==
    InitWith([callers |-> {1}, requests |-> MaxRequests, products |-> {"a", "c"},
              input_scripts |-> InputScripts,
              actions |-> ActionSets, directives |-> {{}},
              listings |-> { << <<>> >>, << <<"x", "c">> >> },
              outputs |-> { NoOutput, << <<T409, Tbad>> >>, << <<T200, Tbad>> >> }])

\* two callers with one request each for "a", at the same time
InitConcurrent ==
    InitWith([callers |-> Callers, requests |-> 1, products |-> {"a"},
              input_scripts |-> InputScripts,
              actions |-> {{"MAKE"}}, directives |-> {{}},
              listings |-> { << <<>> >>, << <<"x", "c">> >> },
              outputs |-> { NoOutput, << <<T409, Tbad>> >> }])

\* one caller and one MAKE request for "a" or "b", which both have an
\* input.sh that may list "a", "b" or both: the listings form cycles
InitCycle ==
    InitWith([callers |-> {1}, requests |-> 1, products |-> {"a", "b"},
              input_scripts |-> {"a", "b"},
              actions |-> {{"MAKE"}}, directives |-> {{}},
              listings |-> { << <<>> >>, << <<"x", "a">> >>, << <<"x", "b">> >>,
                             << <<"x", "a">>, <<"y", "b">> >>,
                             << <<"x", "b">>, <<"y", "a">> >> },
              outputs |-> { NoOutput, << <<T409, Tbad>> >> }])

StepMake(p) ==
    \/ make_request(p)
    \/ PathExists(p)
    \/ StatFinal(p)
    \/ GeneratorExists(p)
    \/ Placeholder(p)
    \/ get_input_list(p)
    \/ RemovePlaceholder(p)
    \/ MakeInput(p)
    \/ ReturnInput(p)
    \/ InputsDone(p)
    \/ Popen(p)
    \/ run_generator(p)
    \/ StatTmp(p)
    \/ Publish(p)
    \/ ApplyDirectives(p)
    \/ Return(p)

Step(p) == StepMake(p) \/ Delete(p)

Next == \E p \in Callers : Step(p)

\* the steps of requests without DELETE
NextMake == \E p \in Callers : StepMake(p)

Spec == Init /\ [][Next]_vars

SpecRepeat == InitRepeat /\ [][Next]_vars

SpecConcurrent == InitConcurrent /\ [][NextMake]_vars

\* the scripts terminate and the engine runs on: a request that can take a
\* step takes one
SpecCycle == InitCycle /\ [][NextMake]_vars /\ WF_vars(NextMake)

----------------------------------------------------------------------------
(* The properties.  A request is about to return when its frame is the     *)
(* running one at pc "done"; fs0 is the file system it was made in.        *)

\* the request of caller p that is about to return
Returning(p) == Running(p, "done")

\* C1. Cache-hit idempotence: a MAKE request for a product whose file exists
\* with size > 0 returns status OK and the final path as its product, runs
\* neither input.sh nor generate.sh and leaves every cache file as it was;
\* made after a request that was served the same file, it returns the same
\* status and path again.
C1_CacheHitIdempotent ==
    \A p \in Callers :
        ( /\ Returning(p)
          /\ "MAKE" \in Top(p).actions
          /\ "DELETE" \notin Top(p).actions
          /\ Size(Top(p).fs0, Path(Top(p).d)) > 0 )
        => /\ Top(p).status = OK
           /\ Top(p).product = Path(Top(p).d)
           /\ Top(p).ran = {}
           /\ fs = Top(p).fs0
           /\ ( /\ Len(stack[p]) = 1
                /\ last[p].d = Top(p).d
                /\ last[p].product = Path(Top(p).d) )
              => /\ Top(p).status = last[p].status
                 /\ Top(p).product = last[p].product

\* two successive MAKE requests for the same cached product: the second is
\* about to return what the first returned
C1_SecondHit ==
    \E p \in Callers :
        /\ Returning(p)
        /\ Len(stack[p]) = 1
        /\ nreq[p] >= 2
        /\ Top(p).actions = {"MAKE"}
        /\ Size(Top(p).fs0, Path(Top(p).d)) > 0
        /\ last[p].d = Top(p).d
        /\ last[p].status = OK
        /\ last[p].product = Path(Top(p).d)
        /\ Top(p).status = OK
        /\ Top(p).product = last[p].product

\* C2. Busy non-interference: a MAKE request (without DELETE) that finds the
\* final path existing with size 0 returns status ACCEPTED with an empty
\* product, runs no process and changes no file: the placeholder still
\* exists with size 0 when the request returns.
C2_BusyNonInterference ==
    \A p \in Callers :
        ( /\ Returning(p)
          /\ "MAKE" \in Top(p).actions
          /\ "DELETE" \notin Top(p).actions
          /\ Exists(Top(p).fs0, Path(Top(p).d))
          /\ Size(Top(p).fs0, Path(Top(p).d)) = 0 )
        => /\ Top(p).status = ACCEPTED
           /\ Top(p).product = NoPath
           /\ Top(p).ran = {}
           /\ fs = Top(p).fs0
           /\ Exists(fs, Path(Top(p).d))
           /\ Size(fs, Path(Top(p).d)) = 0

\* a MAKE request is about to return BUSY over the placeholder that an
\* earlier request left behind
C2_BusySeen ==
    \E p \in Callers :
        /\ Returning(p)
        /\ Len(stack[p]) = 1
        /\ nreq[p] >= 2
        /\ "MAKE" \in Top(p).actions
        /\ "DELETE" \notin Top(p).actions
        /\ Top(p).fs0[Path(Top(p).d)] = EmptyFile
        /\ Top(p).status = ACCEPTED
        /\ Top(p).product = NoPath
        /\ fs[Path(Top(p).d)] = EmptyFile

\* C3. Atomic publish: with concurrent MAKE requests for the same product, the
\* file at the final path is at all times absent, a zero-length placeholder
\* or a complete generator output, never a partially written one.
C3_AtomicPublish ==
    \A d \in Products : fs[Path(d)].kind \in {"none", "empty", "full"}

\* C4. Best-effort inputs: once a MAKE request has resolved its inputs, an
\* input whose request failed is in neither INPUTKEYS nor the environment,
\* an input whose request returned OK is in both, with the path of its
\* file, and the request does not return without having run generate.sh.
C4_BestEffortInputs ==
    \A p \in Callers :
        ( /\ stack[p] # <<>>
          /\ "MAKE" \in Top(p).actions
          /\ "INPUTKEYS" \in DOMAIN Top(p).params )
        => LET f == Top(p)
               keys == { f.params["INPUTKEYS"][k] :
                           k \in 1..Len(f.params["INPUTKEYS"]) }
           IN  /\ \A j \in 1..Len(f.results) :
                    LET name == f.results[j][1]
                        status == f.results[j][2]
                    IN  /\ status = OK
                           => /\ name \in keys
                              /\ name \in DOMAIN f.params
                        /\ status \notin {OK, ACCEPTED}
                           => /\ name \notin keys
                              /\ name \notin DOMAIN f.params
               /\ f.pc = "done" => "generate.sh" \in f.ran

\* C5. Terminal-outcome invariant: when a request returns, either its status
\* is OK, its path is set, the file there has size > 0 and no generator
\* exited non-zero, or its status is not OK and the final path holds no
\* artifact or the file that was there before the request.
C5_TerminalOutcome ==
    \A p \in Callers :
        Returning(p)
        => \/ /\ Top(p).status = OK
              /\ Top(p).path # NoPath
              /\ Size(fs, Top(p).path) > 0
              /\ Top(p).returncode \in {-1, 0}
           \/ /\ Top(p).status # OK
              /\ \/ Size(fs, Path(Top(p).d)) = 0
                 \/ fs[Path(Top(p).d)] = Top(p).fs0[Path(Top(p).d)]

\* C6. Missing generator: a MAKE request for a product with no cached file
\* and no generate.sh returns status NOT_IMPLEMENTED with an empty path,
\* having run no process and created no directory or placeholder: the cache
\* is as it was.
C6_MissingGenerator ==
    \A p \in Callers :
        ( /\ Returning(p)
          /\ "MAKE" \in Top(p).actions
          /\ ~Exists(Top(p).fs0, Path(Top(p).d))
          /\ Top(p).d \notin GeneratorScripts )
        => /\ Top(p).status = NOT_IMPLEMENTED
           /\ Top(p).path = NoPath
           /\ Top(p).ran = {}
           /\ fs = Top(p).fs0

\* a MAKE request for "c", which has no generator and is not in the cache, is
\* about to return
C6_NotImplementedSeen ==
    \E p \in Callers :
        /\ Returning(p)
        /\ Top(p).actions = {"MAKE"}
        /\ Top(p).d = "c"
        /\ ~Exists(Top(p).fs0, Path("c"))
        /\ ~Exists(fs, Path("c"))
        /\ ~Exists(fs, Parent(Path("c")))
        /\ Top(p).status = NOT_IMPLEMENTED
        /\ Top(p).path = NoPath

\* C7. Failure status mapping: a request whose generator exited non-zero
\* returns the status named by the leading integer token of the last line of
\* the captured output, and CONFLICT when there is no output or that token
\* is not an integer or not a status code.
C7_FailureStatusMapping ==
    \A p \in Callers :
        (Returning(p) /\ Top(p).returncode > 0)
        => Top(p).status = IF Top(p).stdout = NoOutput THEN CONFLICT
                           ELSE StatusOf(Top(p).stdout)

\* C8. Failure logs: when a request whose generator exited non-zero returns,
\* <path>.stdout.log and <path>.stderr.log both exist and hold the output
\* captured from that run, and the final path holds no artifact.
C8_FailureLogs ==
    \A p \in Callers :
        (Returning(p) /\ Top(p).returncode > 0)
        => /\ fs[Sibling(Path(Top(p).d), "stdout.log")] = TextFile(Top(p).run)
           /\ fs[Sibling(Path(Top(p).d), "stderr.log")] = TextFile(Top(p).run)
           /\ Size(fs, Path(Top(p).d)) = 0

\* C9. DELETE is terminal: a request with DELETE among its actions for a
\* product whose file exists returns status ACCEPTED with the file removed,
\* no placeholder created and no process run, generator or not, MAKE or not.
C9_DeleteIsTerminal ==
    \A p \in Callers :
        ( /\ Returning(p)
          /\ "DELETE" \in Top(p).actions
          /\ Exists(Top(p).fs0, Path(Top(p).d)) )
        => /\ Top(p).status = ACCEPTED
           /\ ~Exists(fs, Path(Top(p).d))
           /\ Top(p).ran = {}

\* C10. Input-listing failure is request-fatal: a MAKE request whose input.sh
\* exits non-zero returns (no exception leaves it), with status CONFLICT, its
\* placeholder removed, no input requested and generate.sh not run.
C10_ListingFailureFatal ==
    \A p \in Callers :
        /\ ~(last[p].raised = "AttributeError" /\ "MAKE" \in last[p].actions)
        /\ ( /\ Returning(p)
             /\ "MAKE" \in Top(p).actions
             /\ Top(p).listed # 0 )
           => /\ Top(p).status = CONFLICT
              /\ ~Exists(fs, Path(Top(p).d))
              /\ Top(p).results = <<>>
              /\ "generate.sh" \notin Top(p).ran

\* C11. No uncaught faults: whatever the actions, the cache and the scripts
\* do, a request ends by returning; no exception ever leaves make_request.
C11_NoUncaughtFaults ==
    \A p \in Callers : last[p].raised = ""

\* C12. Successful generation: a MAKE request made when no file is at the
\* final path, whose generator wrote data to OUTDIR/OUTFILE and exited 0,
\* returns status OK; the final path then holds exactly what that run of the
\* generator wrote, complete, and the temp file is gone.
C12_SuccessfulGeneration ==
    \A p \in Callers :
        ( /\ Returning(p)
          /\ "MAKE" \in Top(p).actions
          /\ ~Exists(Top(p).fs0, Path(Top(p).d))
          /\ Top(p).returncode = 0
          /\ Top(p).mode = "data" )
        => /\ Top(p).status = OK
           /\ Top(p).path = Path(Top(p).d)
           /\ fs[Path(Top(p).d)] = DataFile("full", Top(p).run)
           /\ ~Exists(fs, PathTmp(Top(p).d))

\* a request that generated its product is about to return, after an earlier
\* request had failed and left its temp file behind
C12_Generated ==
    \E p \in Callers :
        /\ Returning(p)
        /\ Top(p).actions = {"MAKE"}
        /\ ~Exists(Top(p).fs0, Path(Top(p).d))
        /\ Exists(Top(p).fs0, PathTmp(Top(p).d))
        /\ Top(p).returncode = 0
        /\ Top(p).mode = "data"
        /\ Top(p).status = OK
        /\ fs[Path(Top(p).d)] = DataFile("full", Top(p).run)

\* C13. Generator environment: when a MAKE request runs its generator, OUTDIR
\* is the directory of the temp path, OUTFILE the name of the final file,
\* INPUTKEYS the names of the resolved inputs in listing order, and each of
\* these names is bound to the path of its input; no name listed by input.sh
\* changes OUTDIR, OUTFILE or INPUTKEYS.
C13_GeneratorEnvironment ==
    \A p \in Callers :
        (Running(p, "running") /\ "MAKE" \in Top(p).actions)
        => LET f == Top(p)
           IN  /\ f.params["OUTDIR"] = Parent(f.path_tmp)
               /\ f.params["OUTFILE"] = Name(Path(f.d))
               /\ f.params["INPUTKEYS"] = InputKeys(f.resolved)
               /\ \A k \in 1..Len(f.resolved) :
                    f.params[f.resolved[k][1]] = f.resolved[k][2]

\* C14. Artifact persistence: with concurrent MAKE requests and no DELETE, a
\* non-empty file at a final path stays there, non-empty, at every step.
C14_ArtifactPersists ==
    [][ \A d \in Products :
          Size(fs, Path(d)) > 0 => Size(fs', Path(d)) > 0 ]_vars

\* C15. Stale placeholder: a MAKE request whose generator exited non-zero, or
\* exited 0 leaving an empty temp file, returns with the zero-length
\* placeholder still at the final path; and a MAKE request (without DELETE)
\* made while that placeholder is there returns ACCEPTED without running the
\* generator and leaves the placeholder, so that the same holds for the next.
C15_StalePlaceholder ==
    \A p \in Callers :
        Returning(p)
        => /\ ( /\ "MAKE" \in Top(p).actions
                /\ \/ Top(p).returncode > 0
                   \/ Top(p).returncode = 0 /\ Top(p).mode = "empty" )
              => fs[Path(Top(p).d)] = EmptyFile
           /\ ( /\ "MAKE" \in Top(p).actions
                /\ "DELETE" \notin Top(p).actions
                /\ Top(p).fs0[Path(Top(p).d)] = EmptyFile )
              => /\ Top(p).status = ACCEPTED
                 /\ "generate.sh" \notin Top(p).ran
                 /\ fs[Path(Top(p).d)] = EmptyFile

\* after a MAKE request whose generator failed, two more MAKE requests for the
\* same product: the second of them, too, is about to return BUSY
C15_StillBusy ==
    \E p \in Callers :
        /\ Returning(p)
        /\ Len(stack[p]) = 1
        /\ nreq[p] = 3
        /\ Top(p).actions = {"MAKE"}
        /\ Top(p).fs0[Path(Top(p).d)] = EmptyFile
        /\ Exists(fs, Sibling(Path(Top(p).d), "stdout.log"))
        /\ last[p].d = Top(p).d
        /\ last[p].status = ACCEPTED
        /\ last[p].product = NoPath
        /\ Top(p).status = ACCEPTED

\* C16. Check-then-act race: the placeholder excludes no generator run.  Of
\* concurrent MAKE requests for the same product, every one that observed no
\* file at the final path (it was served neither the file nor BUSY) and whose
\* input listing succeeded has run the generator when it returns, whatever
\* the other request did in between.
C16_NoMutualExclusion ==
    \A p \in Callers :
        ( /\ Returning(p)
          /\ Len(stack[p]) = 1
          /\ "MAKE" \in Top(p).actions
          /\ Top(p).product = None
          /\ Top(p).listed = 0 )
        => "generate.sh" \in Top(p).ran

\* both requests observed MISS, both placeholders were touched, and the two
\* generators for the same product run at the same time
C16_BothGenerate ==
    /\ \A p \in Callers :
         /\ Running(p, "running")
         /\ Len(stack[p]) = 1
         /\ Top(p).d = "a"
         /\ ~Exists(Top(p).fs0, Path("a"))
    /\ Top(1).run # Top(2).run
    /\ Exists(fs, Path("a"))

\* C17. Empty output is a generation failure: a MAKE request whose generator
\* exited 0 leaving an empty temp file returns without publishing, with the
\* placeholder still at the final path, and with a failure status: neither
\* OK nor the NO_CONTENT the request was created with.
C17_EmptyOutputFails ==
    \A p \in Callers :
        ( /\ Returning(p)
          /\ "MAKE" \in Top(p).actions
          /\ Top(p).returncode = 0
          /\ Top(p).mode = "empty" )
        => /\ fs[Path(Top(p).d)] = EmptyFile
           /\ Top(p).status \notin {OK, NO_CONTENT}

\* C18. Directives are advisory: the step that applies LINK, LATEST and LOG
\* after the publication, whichever of them fail, ends the request with the
\* status OK, the final path set and the published file as it was.
C18_DirectivesAdvisory ==
    [][ \A p \in Callers :
          (Running(p, "directives") /\ stack'[p] # stack[p])
          => /\ stack'[p] # <<>>
             /\ Top(p)'.pc = "done"
             /\ Top(p)'.status = OK
             /\ Top(p)'.path = Path(Top(p).d)
             /\ Size(fs, Path(Top(p).d)) > 0
             /\ fs'[Path(Top(p).d)] = fs[Path(Top(p).d)] ]_vars

\* a request with all three directives is about to return OK with its
\* artifact published, although none of the directives took effect
C18_DirectivesFailed ==
    \E p \in Callers :
        /\ Returning(p)
        /\ Top(p).directives = {"LINK", "LATEST", "LOG"}
        /\ Top(p).stdout # NoOutput
        /\ Top(p).status = OK
        /\ fs[Path(Top(p).d)] = DataFile("full", Top(p).run)
        /\ ~Exists(fs, PathStatic(Top(p).d))
        /\ ~Exists(fs, PathLatest(Top(p).d))
        /\ ~Exists(fs, Sibling(Path(Top(p).d), "log"))

\* the alias and log files of a product
AliasKinds == {"static", "latest", "log"}

\* the directive that writes the file of this kind
DirectiveOf(kind) ==
    IF kind = "static" THEN "LINK" ELSE IF kind = "latest" THEN "LATEST" ELSE "LOG"

\* C19. Directives only after publication: a step creates or changes a static
\* alias, a latest alias or a .log file only if it is the directives step of
\* a top-level request for that product that has just published its artifact
\* with status OK and was given that directive; no other step of any
\* request, and no step of a request for an input, touches these files.
C19_DirectivesAfterPublication ==
    [][ \A d \in Products, kind \in AliasKinds :
          LET file == [d |-> d, kind |-> kind]
          IN  (fs'[file] # fs[file] /\ fs'[file] # [fs[file] EXCEPT !.by = 0])
              => \E p \in Callers :
                   /\ Running(p, "directives")
                   /\ Len(stack[p]) = 1
                   /\ Top(p).d = d
                   /\ Top(p).status = OK
                   /\ Top(p).returncode = 0
                   /\ Size(fs, Path(d)) > 0
                   /\ DirectiveOf(kind) \in Top(p).directives ]_vars

\* a request with directives is about to return with its aliases and log
\* written, while the input it had generated on the way has none
C19_AliasesWritten ==
    \E p \in Callers :
        /\ Returning(p)
        /\ Len(stack[p]) = 1
        /\ Top(p).d = "a"
        /\ Top(p).status = OK
        /\ Top(p).results = << <<"x", OK>> >>
        /\ ~Exists(Top(p).fs0, Path("b"))
        /\ Size(fs, Path("b")) > 0
        /\ fs[PathStatic("a")] = LinkFile
        /\ fs[PathLatest("a")] = LinkFile
        /\ fs[Sibling(Path("a"), "log")] = TextFile(Top(p).run)
        /\ \A kind \in AliasKinds : ~Exists(fs, [d |-> "b", kind |-> kind])

\* C20. Termination on cyclic dependencies: with input listings that form
\* cycles and scripts that terminate, a MAKE request never has more recursive
\* requests for inputs in progress below it than there are products (the
\* last of them is the re-entered product, which finds its placeholder and
\* returns BUSY), and every request that was made ends.
C20_TerminatesOnCycles ==
    /\ [](\A p \in Callers :
            Len(stack[p]) - 1 <= Cardinality(fixture.products))
    /\ \A p \in Callers : (stack[p] # <<>>) ~> (stack[p] = <<>>)

\* the cycle a -> b -> a: the request for "a" made for "b", itself made for
\* "a", is about to return BUSY on the placeholder of the first
C20_ReenteredBusy ==
    \E p \in Callers :
        /\ Len(stack[p]) = 3
        /\ stack[p][1].d = "a"
        /\ stack[p][2].d = "b"
        /\ Returning(p)
        /\ Top(p).d = "a"
        /\ Top(p).status = ACCEPTED
        /\ Top(p).product = NoPath

\* C21. Inputs handed to a generator are complete artifacts: when a request is
\* about to invoke its generator, every input path in the environment is an
\* existing file of size > 0, and no input whose request returned BUSY or a
\* failure status is among the inputs passed.
C21_InputsComplete ==
    \A p \in Callers :
        Running(p, "generate")
        => LET f == Top(p)
           IN  /\ \A k \in 1..Len(f.resolved) :
                    /\ f.params[f.resolved[k][1]] = f.resolved[k][2]
                       => Size(fs, f.resolved[k][2]) > 0
               /\ \A j \in 1..Len(f.results) :
                    f.results[j][2] # OK
                    => \A k \in 1..Len(f.resolved) :
                         f.resolved[k][1] # f.results[j][1]

\* C22. Listing inputs is read-only on the cache: when a request whose actions
\* are exactly {INPUTS} returns, the file at its final path is what it was
\* when the request was made, absent, placeholder or artifact, whether
\* input.sh succeeded or failed.
C22_InputsReadOnly ==
    \A p \in Callers :
        (Returning(p) /\ Top(p).actions = {"INPUTS"})
        => fs[Path(Top(p).d)] = Top(p).fs0[Path(Top(p).d)]

\* C23. Published content comes from the publishing request's own run: when a
\* request has moved the temp file to its final path, that file is what the
\* generator run of this request wrote, complete.
C23_PublishedIsOwnRun ==
    \A p \in Callers :
        Running(p, "directives")
        => /\ Top(p).mode = "data"
           /\ fs[Path(Top(p).d)] = DataFile("full", Top(p).run)

\* C24. At-most-once generation without overlap: in a sequence of MAKE
\* requests for a product, without DELETE, its generator runs at most once.
\* Once a request has run the generator there is a file at the final path,
\* however the request goes on and ends; and a MAKE request (without DELETE)
\* made while a file is there is served the file or BUSY, runs no generator
\* and leaves a file there for the next.
C24_AtMostOnce ==
    /\ [][ \A p \in Callers :
             (stack[p] # <<>> /\ "generate.sh" \in Top(p).ran)
             => Exists(fs', Path(Top(p).d)) ]_vars
    /\ [](\A p \in Callers :
            ( /\ Returning(p)
              /\ "MAKE" \in Top(p).actions
              /\ "DELETE" \notin Top(p).actions
              /\ Exists(Top(p).fs0, Path(Top(p).d)) )
            => /\ "generate.sh" \notin Top(p).ran
               /\ \/ Top(p).status = OK /\ Top(p).product = Path(Top(p).d)
                  \/ Top(p).status = ACCEPTED /\ Top(p).product = NoPath
               /\ Exists(fs, Path(Top(p).d)))

\* the first request generated and published "a"; the second was served the
\* file, and the third is about to be served it too
C24_ServedAfterRun ==
    \E p \in Callers :
        /\ Returning(p)
        /\ Len(stack[p]) = 1
        /\ nreq[p] = 3
        /\ Top(p).d = "a"
        /\ Top(p).actions = {"MAKE"}
        /\ Exists(fs, Parent(PathTmp("a")))
        /\ ~Exists(fs, Sibling(Path("a"), "stdout.log"))
        /\ Size(Top(p).fs0, Path("a")) > 0
        /\ last[p].d = "a"
        /\ last[p].status = OK
        /\ last[p].product = Path("a")
        /\ Top(p).status = OK
        /\ Top(p).product = Path("a")
        /\ "generate.sh" \notin Top(p).ran

====
